---- MODULE Spec2Model ----
(***************************************************************************)
(* The window manager of WindowManagerProvider (src/unnamed/part_000):     *)
(* the `windows` array and the `topZIndex` counter, and the eight          *)
(* operations the provider exposes.                                        *)
(*   Spec        every operation runs to completion before the next one    *)
(*               is issued (one action per call);                          *)
(*   SpecQueued  calls queue their state updates, and a render processes   *)
(*               the queues of the two useState hooks;                     *)
(*   SpecChat    one request to the chat POST handler                      *)
(*               (src/src/app/api/chat/route.ts).                          *)
(***************************************************************************)
EXTENDS Integers, Sequences, FiniteSets

\* ---------------------------------------------------------------- bounds

\* The number of front-ing calls (open / restore / focus) a run may make.
MaxFronts == 3

\* useState(100): the initial topZIndex.
BaseZIndex == 100

\* The window ids callers use.
Ids == {"a", "b"}

\* The arguments callers pass to openWindow: Omit<WindowState, 'zIndex' | 'isFocused'>.
WindowArg(id, v) ==
    IF v = 1
    THEN [id |-> id, title |-> "Notes", icon |-> "note", x |-> 50, y |-> 60,
          width |-> 400, height |-> 300, isMinimized |-> FALSE, isMaximized |-> FALSE]
    ELSE [id |-> id, title |-> "Chat", icon |-> "chat", x |-> 120, y |-> -80,
          width |-> 640, height |-> 480, isMinimized |-> TRUE, isMaximized |-> TRUE]

WindowArgs == {WindowArg(id, v) : id \in Ids, v \in {1, 2}}

\* The (x, y) pairs passed to updateWindowPosition and the (width, height)
\* pairs passed to updateWindowSize.
Positions == {<<-20, 10>>}
Sizes == {<<800, 600>>}

\* ----------------------------------------------------------------- state

VARIABLES
    windows,      \* useState<WindowState[]>([]): the array of windows
    topZIndex,    \* useState(100): the z-index counter
    last,         \* the call that produced this state (none initially)
    maxAssigned,  \* the largest zIndex ever written to a window (0: none yet)
    recency,      \* the tracked ids, least recently fronted first
    winQueue,     \* setWindows updaters queued and not yet rendered
    topQueue,     \* setTopZIndex updaters queued and not yet rendered
    alternate,    \* "null" until the provider's first re-render
    refWindows,   \* the window list had every call so far run to completion
    refTopZIndex, \* the counter had every call so far run to completion
    calls,        \* the number of calls made so far
    messages,     \* the messages array of the chat request
    response      \* what the chat POST handler produced for it

\* The state of the calls that run to completion one at a time.
callVars == <<last, maxAssigned, recency>>

\* The state of React's update queues for the two useState hooks.
queueVars == <<winQueue, topQueue, alternate, refWindows, refTopZIndex, calls>>

\* The state of one chat request.
chatVars == <<messages, response>>

vars == <<windows, topZIndex, callVars, queueVars, chatVars>>

\* ------------------------------------------------------- array helpers

\* prev.find(w => w.id === id): the index of the first match, 0 when none.
Find(prev, id) ==
    IF \E i \in 1..Len(prev) : prev[i].id = id
    THEN CHOOSE i \in 1..Len(prev) :
            /\ prev[i].id = id
            /\ \A j \in 1..(i - 1) : prev[j].id # id
    ELSE 0

Present(prev, id) == Find(prev, id) # 0

\* const newZ = currentZ + 1
NewZ_Stale(currentZ) == currentZ

NewZ_Skip(currentZ) == currentZ + 2

NewZ(currentZ) == currentZ + 1

\* { ...window, zIndex: newZ, isFocused: true }
NewWindow(window, newZ) ==
    [id |-> window.id, title |-> window.title, icon |-> window.icon,
     x |-> window.x, y |-> window.y,
     width |-> window.width, height |-> window.height,
     isMinimized |-> window.isMinimized, isMaximized |-> window.isMaximized,
     zIndex |-> newZ, isFocused |-> TRUE]

\* ------------------------------------------------- the setWindows updaters

\* The updater openWindow passes to setWindows.
OpenWindows_OverwriteExisting(prev, window, newZ) ==
    IF Present(prev, window.id)
    THEN [i \in 1..Len(prev) |->
            IF prev[i].id = window.id
            THEN NewWindow(window, newZ)
            ELSE [prev[i] EXCEPT !.isFocused = FALSE]]
    ELSE Append([i \in 1..Len(prev) |-> [prev[i] EXCEPT !.isFocused = FALSE]],
                NewWindow(window, newZ))

OpenWindows_KeepFocus(prev, window, newZ) ==
    IF Present(prev, window.id)
    THEN [i \in 1..Len(prev) |->
            IF prev[i].id = window.id
            THEN [prev[i] EXCEPT !.isMinimized = FALSE, !.isFocused = TRUE, !.zIndex = newZ]
            ELSE [prev[i] EXCEPT !.isFocused = FALSE]]
    ELSE Append(prev, NewWindow(window, newZ))

OpenWindows_AlwaysAppend(prev, window, newZ) ==
    Append([i \in 1..Len(prev) |-> [prev[i] EXCEPT !.isFocused = FALSE]],
           NewWindow(window, newZ))

OpenWindows(prev, window, newZ) ==
    LET existing == Find(prev, window.id) IN
    IF existing # 0
    THEN IF prev[existing].isMinimized
         THEN [i \in 1..Len(prev) |->
                 IF prev[i].id = window.id
                 THEN [prev[i] EXCEPT !.isMinimized = FALSE, !.isFocused = TRUE,
                                      !.zIndex = newZ]
                 ELSE [prev[i] EXCEPT !.isFocused = FALSE]]
         ELSE [i \in 1..Len(prev) |->
                 IF prev[i].id = window.id
                 THEN [prev[i] EXCEPT !.isFocused = TRUE, !.zIndex = newZ]
                 ELSE [prev[i] EXCEPT !.isFocused = FALSE]]
    ELSE Append([i \in 1..Len(prev) |-> [prev[i] EXCEPT !.isFocused = FALSE]],
                NewWindow(window, newZ))

\* prev.filter(w => w.id !== id)
CloseWindows_Hide(prev, id) ==
    [i \in 1..Len(prev) |->
        IF prev[i].id = id
        THEN [prev[i] EXCEPT !.isMinimized = TRUE, !.isFocused = FALSE]
        ELSE prev[i]]

CloseWindows_Refocus(prev, id) ==
    LET rest == SelectSeq(prev, LAMBDA w : w.id # id) IN
    [i \in 1..Len(rest) |->
        IF i = Len(rest) THEN [rest[i] EXCEPT !.isFocused = TRUE] ELSE rest[i]]

CloseWindows(prev, id) == SelectSeq(prev, LAMBDA w : w.id # id)

\* prev.map(w => w.id === id ? { ...w, isMinimized: true, isFocused: false } : w)
MinimizeWindows_UnfocusAll(prev, id) ==
    [i \in 1..Len(prev) |->
        IF prev[i].id = id
        THEN [prev[i] EXCEPT !.isMinimized = TRUE, !.isFocused = FALSE]
        ELSE [prev[i] EXCEPT !.isFocused = FALSE]]

MinimizeWindows_Drop(prev, id) == SelectSeq(prev, LAMBDA w : w.id # id)

MinimizeWindows(prev, id) ==
    [i \in 1..Len(prev) |->
        IF prev[i].id = id
        THEN [prev[i] EXCEPT !.isMinimized = TRUE, !.isFocused = FALSE]
        ELSE prev[i]]

\* prev.map(w => w.id === id ? { ...w, isMaximized: !w.isMaximized } : w)
MaximizeWindows_SetTrue(prev, id) ==
    [i \in 1..Len(prev) |->
        IF prev[i].id = id
        THEN [prev[i] EXCEPT !.isMaximized = TRUE]
        ELSE prev[i]]

MaximizeWindows(prev, id) ==
    [i \in 1..Len(prev) |->
        IF prev[i].id = id
        THEN [prev[i] EXCEPT !.isMaximized = ~prev[i].isMaximized]
        ELSE prev[i]]

\* The updater restoreWindow passes to setWindows.
RestoreWindows_KeepFocus(prev, id, newZ) ==
    [i \in 1..Len(prev) |->
        IF prev[i].id = id
        THEN [prev[i] EXCEPT !.isMinimized = FALSE, !.isFocused = TRUE, !.zIndex = newZ]
        ELSE prev[i]]

RestoreWindows_NoRaise(prev, id, newZ) ==
    [i \in 1..Len(prev) |->
        IF prev[i].id = id
        THEN [prev[i] EXCEPT !.isMinimized = FALSE, !.isFocused = TRUE]
        ELSE [prev[i] EXCEPT !.isFocused = FALSE]]

RestoreWindows(prev, id, newZ) ==
    [i \in 1..Len(prev) |->
        IF prev[i].id = id
        THEN [prev[i] EXCEPT !.isMinimized = FALSE, !.isFocused = TRUE, !.zIndex = newZ]
        ELSE [prev[i] EXCEPT !.isFocused = FALSE]]

\* The updater focusWindow passes to setWindows.
FocusWindows_Unminimize(prev, id, newZ) ==
    [i \in 1..Len(prev) |->
        IF prev[i].id = id
        THEN [prev[i] EXCEPT !.isMinimized = FALSE, !.isFocused = TRUE, !.zIndex = newZ]
        ELSE [prev[i] EXCEPT !.isFocused = FALSE]]

FocusWindows_NoRaise(prev, id, newZ) ==
    [i \in 1..Len(prev) |->
        IF prev[i].id = id
        THEN [prev[i] EXCEPT !.isFocused = TRUE]
        ELSE [prev[i] EXCEPT !.isFocused = FALSE]]

FocusWindows(prev, id, newZ) ==
    [i \in 1..Len(prev) |->
        IF prev[i].id = id
        THEN [prev[i] EXCEPT !.isFocused = TRUE, !.zIndex = newZ]
        ELSE [prev[i] EXCEPT !.isFocused = FALSE]]

\* prev.map(w => w.id === id ? { ...w, x, y } : w)
PositionWindows_Raise(prev, id, x, y) ==
    [i \in 1..Len(prev) |->
        IF prev[i].id = id
        THEN [prev[i] EXCEPT !.x = x, !.y = y, !.isFocused = TRUE]
        ELSE prev[i]]

PositionWindows(prev, id, x, y) ==
    [i \in 1..Len(prev) |->
        IF prev[i].id = id
        THEN [prev[i] EXCEPT !.x = x, !.y = y]
        ELSE prev[i]]

\* prev.map(w => w.id === id ? { ...w, width, height } : w)
SizeWindows(prev, id, width, height) ==
    [i \in 1..Len(prev) |->
        IF prev[i].id = id
        THEN [prev[i] EXCEPT !.width = width, !.height = height]
        ELSE prev[i]]

\* ------------------------------------------------------------ call record

\* The argument record of a call that is not openWindow.
NoArg == WindowArg("", 1)

\* The call being made, as seen from the state it is made in.
Call(op, id, window, p, q) ==
    [op |-> op, id |-> id, window |-> window, p |-> p, q |-> q,
     hit |-> Present(windows, id),
     wasMin |-> Present(windows, id) /\ windows[Find(windows, id)].isMinimized,
     reopen |-> /\ op = "open"
                /\ last.op = "close" /\ last.id = id /\ last.hit]

\* The largest zIndex held by a window of `ws` that `old` did not hold at the
\* same id, or `m` when that is larger.
MaxWritten(m, old, ws) ==
    LET written == {ws[i].zIndex : i \in
                      {j \in 1..Len(ws) :
                          \/ ~Present(old, ws[j].id)
                          \/ old[Find(old, ws[j].id)].zIndex # ws[j].zIndex}}
        all == written \cup {m}
    IN CHOOSE z \in all : \A u \in all : u <= z

\* The tracked ids in the order of their last front-ing call, after a
\* front-ing call on `id` that produced the list `ws`.
Fronted(rec, id, ws) ==
    IF Present(ws, id)
    THEN Append(SelectSeq(rec, LAMBDA r : r # id), id)
    ELSE rec

\* The chat handler has not produced a response.
NoResponse == [status |-> 0, context |-> <<>>, prompt |-> <<>>]

\* ------------------------------------------------------------- operations

Init ==
    /\ windows = <<>>
    /\ topZIndex = BaseZIndex
    /\ last = [op |-> "none", id |-> "", window |-> NoArg, p |-> 0, q |-> 0,
               hit |-> FALSE, wasMin |-> FALSE, reopen |-> FALSE]
    /\ maxAssigned = 0
    /\ recency = <<>>
    /\ winQueue = <<>>
    /\ topQueue = <<>>
    /\ alternate = "null"
    /\ refWindows = <<>>
    /\ refTopZIndex = BaseZIndex
    /\ calls = 0
    /\ messages = <<>>
    /\ response = NoResponse

openWindow(window) ==
    /\ topZIndex < BaseZIndex + MaxFronts
    /\ LET newZ == NewZ(topZIndex) IN
       /\ windows' = OpenWindows(windows, window, newZ)
       /\ topZIndex' = newZ
    /\ last' = Call("open", window.id, window, 0, 0)
    /\ maxAssigned' = MaxWritten(maxAssigned, windows, windows')
    /\ recency' = Fronted(recency, window.id, windows')
    /\ UNCHANGED <<queueVars, chatVars>>

closeWindow(id) ==
    /\ windows' = CloseWindows(windows, id)
    /\ last' = Call("close", id, NoArg, 0, 0)
    /\ recency' = SelectSeq(recency, LAMBDA r : r # id)
    /\ UNCHANGED <<topZIndex, maxAssigned, queueVars, chatVars>>

minimizeWindow(id) ==
    /\ windows' = MinimizeWindows(windows, id)
    /\ last' = Call("minimize", id, NoArg, 0, 0)
    /\ UNCHANGED <<topZIndex, maxAssigned, recency, queueVars, chatVars>>

maximizeWindow(id) ==
    /\ windows' = MaximizeWindows(windows, id)
    /\ last' = Call("maximize", id, NoArg, 0, 0)
    /\ UNCHANGED <<topZIndex, maxAssigned, recency, queueVars, chatVars>>

restoreWindow(id) ==
    /\ topZIndex < BaseZIndex + MaxFronts
    /\ LET newZ == NewZ(topZIndex) IN
       /\ windows' = RestoreWindows(windows, id, newZ)
       /\ topZIndex' = newZ
    /\ last' = Call("restore", id, NoArg, 0, 0)
    /\ maxAssigned' = MaxWritten(maxAssigned, windows, windows')
    /\ recency' = Fronted(recency, id, windows')
    /\ UNCHANGED <<queueVars, chatVars>>

focusWindow(id) ==
    /\ topZIndex < BaseZIndex + MaxFronts
    /\ LET newZ == NewZ(topZIndex) IN
       /\ windows' = FocusWindows(windows, id, newZ)
       /\ topZIndex' = newZ
    /\ last' = Call("focus", id, NoArg, 0, 0)
    /\ maxAssigned' = MaxWritten(maxAssigned, windows, windows')
    /\ recency' = Fronted(recency, id, windows')
    /\ UNCHANGED <<queueVars, chatVars>>

updateWindowPosition(id, x, y) ==
    /\ windows' = PositionWindows(windows, id, x, y)
    /\ last' = Call("position", id, NoArg, x, y)
    /\ UNCHANGED <<topZIndex, maxAssigned, recency, queueVars, chatVars>>

updateWindowSize(id, width, height) ==
    /\ windows' = SizeWindows(windows, id, width, height)
    /\ last' = Call("size", id, NoArg, width, height)
    /\ UNCHANGED <<topZIndex, maxAssigned, recency, queueVars, chatVars>>

Next ==
    \/ \E window \in WindowArgs : openWindow(window)
    \/ \E id \in Ids : closeWindow(id)
    \/ \E id \in Ids : minimizeWindow(id)
    \/ \E id \in Ids : maximizeWindow(id)
    \/ \E id \in Ids : restoreWindow(id)
    \/ \E id \in Ids : focusWindow(id)
    \/ \E id \in Ids, xy \in Positions : updateWindowPosition(id, xy[1], xy[2])
    \/ \E id \in Ids, wh \in Sizes : updateWindowSize(id, wh[1], wh[2])

Spec == Init /\ [][Next]_vars

\* ------------------------------------------------------- queued updates

\* The number of calls a run of the queued model may make.
MaxCalls == 4

\* A call as it is queued: the operation and its arguments.  For a setWindows
\* updater `z` is the newZ its closure captured (0 when it captures none).
Updater(op, id, window, p, q, z) ==
    [op |-> op, id |-> id, window |-> window, p |-> p, q |-> q, z |-> z]

\* The setWindows updater of a call, applied to the list `prev`.
ApplyUpdater(prev, u) ==
    CASE u.op = "open" -> OpenWindows(prev, u.window, u.z)
      [] u.op = "close" -> CloseWindows(prev, u.id)
      [] u.op = "minimize" -> MinimizeWindows(prev, u.id)
      [] u.op = "maximize" -> MaximizeWindows(prev, u.id)
      [] u.op = "restore" -> RestoreWindows(prev, u.id, u.z)
      [] u.op = "focus" -> FocusWindows(prev, u.id, u.z)
      [] u.op = "position" -> PositionWindows(prev, u.id, u.p, u.q)
      [] u.op = "size" -> SizeWindows(prev, u.id, u.p, u.q)

\* A hook's queue processed in order: each updater gets the state the one
\* before it returned.
RECURSIVE ApplyQueue(_, _)
ApplyQueue(prev, queue) ==
    IF queue = <<>>
    THEN prev
    ELSE ApplyQueue(ApplyUpdater(prev, Head(queue)), Tail(queue))

\* The topZIndex queue processed during a render, starting from `currentZ`:
\* an update whose state was computed when it was queued yields that state;
\* any other updater runs now, computes newZ and calls setWindows while the
\* provider renders, which queues a render-phase update (`nested`).
RECURSIVE RunTopQueue(_, _, _)
RunTopQueue(currentZ, queue, nested) ==
    IF queue = <<>>
    THEN [state |-> currentZ, nested |-> nested]
    ELSE LET u == Head(queue) IN
         IF u.hasEagerState
         THEN RunTopQueue(u.eagerState, Tail(queue), nested)
         ELSE LET newZ == NewZ(currentZ) IN
              RunTopQueue(newZ, Tail(queue),
                          Append(nested, Updater(u.op, u.id, u.window, 0, 0, newZ)))

\* The provider has no update pending (fiber.lanes === NoLanes).
NoLanes == winQueue = <<>> /\ topQueue = <<>>

\* setTopZIndex(currentZ => { ...; setWindows(...); return newZ }).  With no
\* update pending React may compute the state at once: the updater runs
\* inside the call, on the last rendered topZIndex, and its setWindows is
\* queued then.  It always does so before the provider's first re-render
\* (alternate === null); afterwards the alternate fiber may still carry
\* lanes, and the updater is left for the render.  With an update pending
\* the updater is always left for the render.
DispatchTop(op, id, window) ==
    /\ calls < MaxCalls
    /\ \E eager \in BOOLEAN :
          /\ eager => NoLanes
          /\ (NoLanes /\ alternate = "null") => eager
          /\ IF eager
             THEN LET newZ == NewZ(topZIndex) IN
                  /\ winQueue' = <<Updater(op, id, window, 0, 0, newZ)>>
                  /\ topQueue' = <<[op |-> op, id |-> id, window |-> window,
                                    hasEagerState |-> TRUE, eagerState |-> newZ]>>
             ELSE /\ topQueue' = Append(topQueue,
                                    [op |-> op, id |-> id, window |-> window,
                                     hasEagerState |-> FALSE, eagerState |-> 0])
                  /\ UNCHANGED winQueue
    /\ refWindows' = ApplyUpdater(refWindows,
                        Updater(op, id, window, 0, 0, NewZ(refTopZIndex)))
    /\ refTopZIndex' = NewZ(refTopZIndex)
    /\ calls' = calls + 1
    /\ UNCHANGED <<windows, topZIndex, alternate, callVars, chatVars>>

\* setWindows(prev => ...) called from the operation itself: the updater is
\* appended to the windows queue.
DispatchWindows(op, id, p, q) ==
    /\ calls < MaxCalls
    /\ winQueue' = Append(winQueue, Updater(op, id, NoArg, p, q, 0))
    /\ refWindows' = ApplyUpdater(refWindows, Updater(op, id, NoArg, p, q, 0))
    /\ calls' = calls + 1
    /\ UNCHANGED <<windows, topZIndex, topQueue, alternate, refTopZIndex,
                   callVars, chatVars>>

openWindowQueued(window) == DispatchTop("open", window.id, window)

closeWindowQueued(id) == DispatchWindows("close", id, 0, 0)

minimizeWindowQueued(id) == DispatchWindows("minimize", id, 0, 0)

maximizeWindowQueued(id) == DispatchWindows("maximize", id, 0, 0)

restoreWindowQueued(id) == DispatchTop("restore", id, NoArg)

focusWindowQueued(id) == DispatchTop("focus", id, NoArg)

updateWindowPositionQueued(id, x, y) == DispatchWindows("position", id, x, y)

updateWindowSizeQueued(id, width, height) == DispatchWindows("size", id, width, height)

\* The provider renders: useState(windows) processes its queue, then
\* useState(topZIndex) processes its own, running the updaters left for the
\* render; the setWindows calls they make are applied in the re-render that
\* follows at once, and the result is committed as one snapshot.
Render ==
    /\ ~NoLanes
    /\ LET firstPass == ApplyQueue(windows, winQueue)
           top == RunTopQueue(topZIndex, topQueue, <<>>)
       IN /\ windows' = ApplyQueue(firstPass, top.nested)
          /\ topZIndex' = top.state
    /\ winQueue' = <<>>
    /\ topQueue' = <<>>
    /\ alternate' = "fiber"
    /\ UNCHANGED <<refWindows, refTopZIndex, calls, callVars, chatVars>>

NextQueued ==
    \/ \E window \in WindowArgs : openWindowQueued(window)
    \/ \E id \in Ids : closeWindowQueued(id)
    \/ \E id \in Ids : minimizeWindowQueued(id)
    \/ \E id \in Ids : maximizeWindowQueued(id)
    \/ \E id \in Ids : restoreWindowQueued(id)
    \/ \E id \in Ids : focusWindowQueued(id)
    \/ \E id \in Ids, xy \in Positions : updateWindowPositionQueued(id, xy[1], xy[2])
    \/ \E id \in Ids, wh \in Sizes : updateWindowSizeQueued(id, wh[1], wh[2])
    \/ Render

SpecQueued == Init /\ [][NextQueued]_vars

\* ---------------------------------------------------------- chat request

\* The longest messages array a chat request carries.
MaxMessages == 3

\* interface MessageInput { role: 'user' | 'assistant'; content: string }
MessageInput == [role : {"user", "assistant"}, content : {"hello", "more"}]

\* The messages arrays of the requests.
MessageArrays ==
    UNION {[1..n -> MessageInput] : n \in 0..MaxMessages}

\* messages.filter(m => m.role === 'user').pop(): the last user message, as
\* a list of one message, or the empty list (undefined) when there is none.
LastUserMessage(ms) ==
    LET users == SelectSeq(ms, LAMBDA m : m.role = "user") IN
    IF users = <<>> THEN <<>> ELSE <<users[Len(users)]>>

\* messages.slice(0, -1)
SliceButLast(ms) == SubSeq(ms, 1, Len(ms) - 1)

\* `${m.role === 'user' ? 'User' : 'Assistant'}: ${m.content}`, a text kept
\* as the list of its pieces.
FormatMessage(m) ==
    <<IF m.role = "user" THEN "User" ELSE "Assistant", ": ", m.content>>

\* lines.join('\n\n'): the pieces of the lines with the separator between
\* two lines; the empty text for no line.
RECURSIVE Join(_)
Join(lines) ==
    IF lines = <<>>
    THEN <<>>
    ELSE IF Len(lines) = 1
         THEN Head(lines)
         ELSE Head(lines) \o <<"\n\n">> \o Join(Tail(lines))

\* messages.slice(0, -1).map(...).join('\n\n')
ConversationContext(ms) ==
    LET kept == SliceButLast(ms) IN
    Join([i \in 1..Len(kept) |-> FormatMessage(kept[i])])

\* The prompt passed to query(): the system prompt, the context when it is
\* not the empty text, and the last user message.
FullPrompt(context, lastUserMessage) ==
    IF context # <<>>
    THEN <<"SYSTEM_PROMPT", "\n\nPrevious conversation:\n">> \o context
            \o <<"\n\nUser: ", lastUserMessage.content>>
    ELSE <<"SYSTEM_PROMPT", "\n\nUser: ", lastUserMessage.content>>

InitChat ==
    /\ windows = <<>>
    /\ topZIndex = BaseZIndex
    /\ last = [op |-> "none", id |-> "", window |-> NoArg, p |-> 0, q |-> 0,
               hit |-> FALSE, wasMin |-> FALSE, reopen |-> FALSE]
    /\ maxAssigned = 0
    /\ recency = <<>>
    /\ winQueue = <<>>
    /\ topQueue = <<>>
    /\ alternate = "null"
    /\ refWindows = <<>>
    /\ refTopZIndex = BaseZIndex
    /\ calls = 0
    /\ messages \in MessageArrays
    /\ response = NoResponse

\* POST(request) on a request whose body holds a messages array: status 400
\* when it has no user message, else the streaming response for the prompt.
POST ==
    /\ response = NoResponse
    /\ LET lastUserMessage == LastUserMessage(messages) IN
       IF lastUserMessage = <<>>
       THEN response' = [status |-> 400, context |-> <<>>, prompt |-> <<>>]
       ELSE LET conversationContext == ConversationContext(messages) IN
            response' = [status |-> 200,
                         context |-> conversationContext,
                         prompt |-> FullPrompt(conversationContext,
                                               lastUserMessage[1])]
    /\ UNCHANGED <<windows, topZIndex, callVars, queueVars, messages>>

NextChat == POST

SpecChat == InitChat /\ [][NextChat]_vars

\* ------------------------------------------------------------ properties

\* The window of `ws` with the given id (the id is present).
Win(ws, id) == ws[Find(ws, id)]

Fronting == {"open", "restore", "focus"}

\* The fields no front-ing call may touch on any window.
SameMeta(w, v) ==
    /\ w.id = v.id /\ w.title = v.title /\ w.icon = v.icon

SameGeometry(w, v) ==
    /\ w.x = v.x /\ w.y = v.y /\ w.width = v.width /\ w.height = v.height

\* C1: after any sequence of calls, with ids present or absent, at most one
\* window of `windows` has isFocused = TRUE.
C1_AtMostOneFocused ==
    Cardinality({i \in 1..Len(windows) : windows[i].isFocused}) <= 1

\* Two windows are tracked, restoreWindow has just acted on one of them, and
\* it is the focused one.
C1_Witness ==
    /\ last.op = "restore" /\ last.hit
    /\ Len(windows) = 2
    /\ Win(windows, last.id).isFocused

\* C2: the zIndex a front-ing call (open, restore, focus) writes to its target
\* is strictly greater than every zIndex any window was assigned before the
\* call, windows closed since included; it writes no other window's zIndex.
C2_FreshZIndex ==
    [][(last'.op \in Fronting /\ Present(windows', last'.id)) =>
          /\ Win(windows', last'.id).zIndex > maxAssigned
          /\ \A i \in 1..Len(windows) :
                windows[i].id # last'.id => windows'[i].zIndex = windows[i].zIndex
      ]_vars

\* A front-ing call has acted on a present window beside another one: its
\* zIndex is the largest ever assigned, two above the other window's.
C2_Witness ==
    /\ last.op \in Fronting /\ last.hit
    /\ Len(windows) = 2
    /\ Win(windows, last.id).zIndex = maxAssigned
    /\ maxAssigned = BaseZIndex + 3
    /\ \E i \in 1..2 : windows[i].zIndex = BaseZIndex + 1

\* C3: right after openWindow(window), whatever the state before and whether
\* the id was new, minimized or not minimized, the window with that id is
\* present, is the only focused window, and its zIndex equals topZIndex and
\* is strictly greater than every other window's.
C3_OpenFrontsTarget ==
    last.op = "open" =>
        /\ Present(windows, last.id)
        /\ \A i \in 1..Len(windows) :
              windows[i].isFocused <=> windows[i].id = last.id
        /\ Win(windows, last.id).zIndex = topZIndex
        /\ \A i \in 1..Len(windows) :
              windows[i].id # last.id => windows[i].zIndex < topZIndex

\* openWindow has acted on an id that was already tracked, beside another
\* window.
C3_Witness ==
    /\ last.op = "open" /\ last.hit
    /\ Len(windows) = 2
    /\ Win(windows, last.id).isFocused

\* C4: focusWindow(id) on a present id sets the target's isFocused to TRUE and
\* its zIndex to the previous topZIndex + 1, sets isFocused to FALSE on every
\* other window, and leaves isMinimized, isMaximized, geometry, metadata and
\* the list of ids of all windows unchanged; the target ends above every
\* other window.
C4_FocusFrame ==
    [][(last'.op = "focus" /\ last'.hit) =>
          /\ Len(windows') = Len(windows)
          /\ \A i \in 1..Len(windows) :
                /\ SameMeta(windows'[i], windows[i])
                /\ SameGeometry(windows'[i], windows[i])
                /\ windows'[i].isMinimized = windows[i].isMinimized
                /\ windows'[i].isMaximized = windows[i].isMaximized
                /\ windows'[i].isFocused <=> windows[i].id = last'.id
                /\ windows[i].id = last'.id =>
                      windows'[i].zIndex = topZIndex + 1
                /\ windows[i].id # last'.id =>
                      windows'[i].zIndex < Win(windows', last'.id).zIndex
      ]_vars

\* focusWindow has acted on a minimized window that was behind another one:
\* it is focused and in front, and still minimized.
C4_Witness ==
    /\ last.op = "focus" /\ last.hit
    /\ Len(windows) = 2
    /\ Win(windows, last.id).isFocused
    /\ Win(windows, last.id).isMinimized
    /\ windows[1].id = last.id
    /\ windows[1].zIndex > windows[2].zIndex

\* C5: focusWindow(id) with an id that matches no window leaves topZIndex as
\* it was.
C5_AbsentFocusKeepsTopZIndex ==
    [][(last'.op = "focus" /\ ~last'.hit) => topZIndex' = topZIndex]_vars

\* C6: focusWindow(id) with an id that matches no window leaves the window
\* list as it was: no window added or removed, every field kept.
C6_AbsentFocusKeepsWindows ==
    [][(last'.op = "focus" /\ ~last'.hit) => windows' = windows]_vars

\* C7: openWindow(window) on an id that is already tracked keeps the existing
\* window's title, icon, x, y, width, height and isMaximized; it sets its
\* isMinimized to FALSE, its isFocused to TRUE and its zIndex to the previous
\* topZIndex + 1, and isFocused to FALSE on the others, which keep the rest.
C7_ReopenKeepsExisting ==
    [][(last'.op = "open" /\ last'.hit) =>
          /\ Len(windows') = Len(windows)
          /\ \A i \in 1..Len(windows) :
                /\ SameMeta(windows'[i], windows[i])
                /\ SameGeometry(windows'[i], windows[i])
                /\ windows'[i].isMaximized = windows[i].isMaximized
                /\ IF windows[i].id = last'.id
                   THEN /\ ~windows'[i].isMinimized
                        /\ windows'[i].isFocused
                        /\ windows'[i].zIndex = topZIndex + 1
                   ELSE /\ windows'[i].isMinimized = windows[i].isMinimized
                        /\ ~windows'[i].isFocused
                        /\ windows'[i].zIndex = windows[i].zIndex
      ]_vars

\* openWindow has acted on a tracked id with an argument whose title, position
\* and flags differ from the existing window's, which kept its own.
C7_Witness ==
    /\ last.op = "open" /\ last.hit
    /\ Win(windows, last.id).title # last.window.title
    /\ Win(windows, last.id).x # last.window.x
    /\ Win(windows, last.id).isMaximized # last.window.isMaximized

\* C8: closeWindow(id) followed by openWindow(window) with window.id = id
\* yields a window whose title, icon, x, y, width, height, isMinimized and
\* isMaximized are those of `window` and whose isFocused is TRUE, as on an id
\* never used: nothing of the closed window is carried over.
C8_ReopenAfterCloseIsFresh ==
    last.reopen =>
        /\ Present(windows, last.id)
        /\ LET w == Win(windows, last.id) IN
           /\ SameMeta(w, last.window)
           /\ SameGeometry(w, last.window)
           /\ w.isMinimized = last.window.isMinimized
           /\ w.isMaximized = last.window.isMaximized
           /\ w.isFocused

\* A window was closed and its id opened again with another argument, beside
\* a window that stayed.
C8_Witness ==
    /\ last.reopen
    /\ Len(windows) = 2
    /\ Win(windows, last.id).title = "Chat"
    /\ Win(windows, last.id).isMinimized

\* C9: updateWindowPosition(id, x, y) changes only x and y of the window with
\* that id and updateWindowSize(id, width, height) only its width and height:
\* every other field of it, every other window, the list of windows and
\* topZIndex are unchanged, and an absent id changes nothing.
C9_UpdateFrame ==
    [][(last'.op \in {"position", "size"}) =>
          /\ topZIndex' = topZIndex
          /\ Len(windows') = Len(windows)
          /\ \A i \in 1..Len(windows) :
                IF windows[i].id = last'.id
                THEN windows'[i] =
                        IF last'.op = "position"
                        THEN [windows[i] EXCEPT !.x = last'.p, !.y = last'.q]
                        ELSE [windows[i] EXCEPT !.width = last'.p, !.height = last'.q]
                ELSE windows'[i] = windows[i]
          /\ ~last'.hit => windows' = windows
      ]_vars

\* updateWindowPosition has acted on an unfocused window beside a focused
\* one: it holds the new position and is still unfocused.
C9_Witness ==
    /\ last.op = "position" /\ last.hit
    /\ Len(windows) = 2
    /\ Win(windows, last.id).x = last.p
    /\ Win(windows, last.id).y = last.q
    /\ ~Win(windows, last.id).isFocused
    /\ \E i \in 1..2 : windows[i].isFocused

\* C10: closeWindow(id) removes the window with that id and nothing else:
\* the remaining windows keep their order and all their fields (none becomes
\* focused), topZIndex is unchanged, and an absent id changes nothing.
C10_CloseFrame ==
    [][(last'.op = "close") =>
          /\ topZIndex' = topZIndex
          /\ IF last'.hit
             THEN LET k == Find(windows, last'.id) IN
                  /\ Len(windows') = Len(windows) - 1
                  /\ \A i \in 1..Len(windows') :
                        windows'[i] = IF i < k THEN windows[i] ELSE windows[i + 1]
             ELSE windows' = windows
      ]_vars

\* closeWindow has removed the focused window: the window left is unfocused.
C10_Witness ==
    /\ last.op = "close" /\ last.hit
    /\ Len(windows) = 1
    /\ ~windows[1].isFocused
    /\ ~windows[1].isMinimized
    /\ maxAssigned > windows[1].zIndex

\* C11: minimizeWindow(id) sets isMinimized to TRUE and isFocused to FALSE on
\* the window with that id and changes nothing else: its zIndex, isMaximized,
\* geometry and metadata, every field of every other window (the focused one
\* stays focused), the list of windows and topZIndex are unchanged.
C11_MinimizeFrame ==
    [][(last'.op = "minimize") =>
          /\ topZIndex' = topZIndex
          /\ Len(windows') = Len(windows)
          /\ \A i \in 1..Len(windows) :
                IF windows[i].id = last'.id
                THEN windows'[i] =
                        [windows[i] EXCEPT !.isMinimized = TRUE, !.isFocused = FALSE]
                ELSE windows'[i] = windows[i]
      ]_vars

\* minimizeWindow has acted on an unfocused window beside the focused one,
\* which is still focused.
C11_Witness ==
    /\ last.op = "minimize" /\ last.hit /\ ~last.wasMin
    /\ Len(windows) = 2
    /\ Win(windows, last.id).isMinimized
    /\ \E i \in 1..2 : windows[i].id # last.id /\ windows[i].isFocused

\* C12: maximizeWindow(id) flips isMaximized on the window with that id and
\* changes no other field of any window nor topZIndex; applying it once more
\* gives back the list it started from; on an absent id the list is unchanged.
C12_MaximizeToggle ==
    [][(last'.op = "maximize") =>
          /\ topZIndex' = topZIndex
          /\ Len(windows') = Len(windows)
          /\ \A i \in 1..Len(windows) :
                IF windows[i].id = last'.id
                THEN windows'[i] =
                        [windows[i] EXCEPT !.isMaximized = ~windows[i].isMaximized]
                ELSE windows'[i] = windows[i]
          /\ MaximizeWindows(windows', last'.id) = windows
          /\ ~last'.hit => windows' = windows
      ]_vars

\* maximizeWindow has acted on a window that was opened maximized: it no
\* longer is.
C12_Witness ==
    /\ last.op = "maximize" /\ last.hit
    /\ Len(windows) = 2
    /\ Win(windows, last.id).title = "Chat"
    /\ ~Win(windows, last.id).isMaximized

\* C13: restoreWindow(id) on a present id sets that window's isMinimized to
\* FALSE, its isFocused to TRUE and its zIndex to the previous topZIndex + 1,
\* sets isFocused to FALSE on every other window, and leaves isMaximized,
\* geometry and metadata of all windows unchanged; when the window was
\* minimized the resulting list is the one openWindow with that id yields.
C13_RestoreEffect ==
    [][(last'.op = "restore" /\ last'.hit) =>
          /\ topZIndex' = topZIndex + 1
          /\ Len(windows') = Len(windows)
          /\ \A i \in 1..Len(windows) :
                /\ SameMeta(windows'[i], windows[i])
                /\ SameGeometry(windows'[i], windows[i])
                /\ windows'[i].isMaximized = windows[i].isMaximized
                /\ IF windows[i].id = last'.id
                   THEN /\ ~windows'[i].isMinimized
                        /\ windows'[i].isFocused
                        /\ windows'[i].zIndex = topZIndex + 1
                   ELSE ~windows'[i].isFocused
          /\ last'.wasMin =>
                \A window \in WindowArgs :
                    window.id = last'.id =>
                        windows' = OpenWindows(windows, window, topZIndex + 1)
      ]_vars

\* restoreWindow has acted on a minimized window behind a focused one: it is
\* shown, focused and in front.
C13_Witness ==
    /\ last.op = "restore" /\ last.hit /\ last.wasMin
    /\ Len(windows) = 2
    /\ ~Win(windows, last.id).isMinimized
    /\ Win(windows, last.id).isFocused
    /\ Win(windows, last.id).zIndex = topZIndex
    /\ windows[1].id = last.id

\* C14: topZIndex starts at 100 and never decreases; open, restore and focus
\* raise it by exactly 1 and store the new value as the fronted window's
\* zIndex; close, minimize, maximize, updatePosition and updateSize leave it
\* unchanged.
C14_TopZIndexSteps ==
    /\ topZIndex = 100
    /\ [][/\ topZIndex' >= topZIndex
          /\ last'.op \in Fronting =>
                /\ topZIndex' = topZIndex + 1
                /\ Present(windows', last'.id) =>
                      Win(windows', last'.id).zIndex = topZIndex'
          /\ last'.op \notin Fronting => topZIndex' = topZIndex
         ]_vars

\* The counter has been raised twice, the last time by a front-ing call whose
\* target holds the counter's value.
C14_Witness ==
    /\ last.op \in Fronting /\ last.hit
    /\ topZIndex = BaseZIndex + 2
    /\ Win(windows, last.id).zIndex = topZIndex

\* C15: no two distinct windows have the same zIndex, and a window fronted
\* more recently than another has the larger zIndex.
C15_ZOrderIsRecency ==
    /\ \A i, j \in 1..Len(windows) :
          i # j => windows[i].zIndex # windows[j].zIndex
    /\ \A i, j \in 1..Len(recency) :
          i < j => /\ Present(windows, recency[i])
                   /\ Present(windows, recency[j])
                   /\ Win(windows, recency[i]).zIndex < Win(windows, recency[j]).zIndex

\* The window opened first has been fronted again after the second one: it is
\* last in the list of recency and first in the array.
C15_Witness ==
    /\ Len(windows) = 2 /\ Len(recency) = 2
    /\ last.op \in {"focus", "restore"} /\ last.hit
    /\ recency[2] = windows[1].id
    /\ windows[1].zIndex > windows[2].zIndex

\* C16: the ids of the windows are pairwise distinct; openWindow on a tracked
\* id, minimized or not, adds no entry and leaves that window shown and
\* focused.
C16_UniqueIds ==
    /\ \A i, j \in 1..Len(windows) : i # j => windows[i].id # windows[j].id
    /\ (last.op = "open" /\ last.hit) =>
          /\ Cardinality({i \in 1..Len(windows) : windows[i].id = last.id}) = 1
          /\ ~Win(windows, last.id).isMinimized
          /\ Win(windows, last.id).isFocused

\* openWindow has acted on the id of the one tracked window, which was
\* minimized: one window remains, shown and focused.
C16_Witness ==
    /\ last.op = "open" /\ last.hit /\ last.wasMin
    /\ Len(windows) = 1
    /\ ~windows[1].isMinimized
    /\ windows[1].isFocused

\* The ids tracked in a window list.
IdsOf(ws) == {ws[i].id : i \in 1..Len(ws)}

\* C17: the set of tracked ids changes only through openWindow, which adds
\* its id, and closeWindow, which removes its id: minimize, maximize, restore,
\* focus, updatePosition and updateSize keep the ids and the number of
\* windows, for present and absent ids alike.
C17_Lifecycle ==
    [][/\ last'.op = "open" => IdsOf(windows') = IdsOf(windows) \cup {last'.id}
       /\ last'.op = "close" => IdsOf(windows') = IdsOf(windows) \ {last'.id}
       /\ last'.op \notin {"open", "close"} =>
             /\ Len(windows') = Len(windows)
             /\ \A i \in 1..Len(windows) : windows'[i].id = windows[i].id
      ]_vars

\* restoreWindow has been called with an id that is not tracked while another
\* window is: that window is still the only one.
C17_Witness ==
    /\ last.op = "restore" /\ ~last.hit
    /\ Len(windows) = 1
    /\ windows[1].id # last.id

\* C18: calls take effect in the order they are made, also when several are
\* made before the next render: once every queued update is rendered, windows
\* and topZIndex are what running each call to completion in call order
\* gives.
C18_CallOrder ==
    NoLanes => (windows = refWindows /\ topZIndex = refTopZIndex)

\* C19: in every rendered snapshot each window's zIndex is at most topZIndex
\* and a focused window's zIndex equals topZIndex; the counter has advanced
\* once for every front-ing call the snapshot includes.
C19_SnapshotConsistent ==
    /\ \A i \in 1..Len(windows) :
          /\ windows[i].zIndex <= topZIndex
          /\ windows[i].isFocused => windows[i].zIndex = topZIndex
    /\ NoLanes => topZIndex = refTopZIndex

\* A snapshot rendered from a batch in which a front-ing call's updater was
\* left for the render and a later call's update was applied before it: the
\* list differs from the one call order gives, and its focused window holds
\* the counter's value.
C19_Witness ==
    /\ NoLanes
    /\ calls = 3
    /\ windows # refWindows
    /\ Len(windows) = 2
    /\ \E i \in 1..2 : windows[i].isFocused /\ windows[i].zIndex = topZIndex

\* The index in `ms` of its last user message (there is one).
LastUserIndex(ms) ==
    CHOOSE i \in 1..Len(ms) :
        /\ ms[i].role = "user"
        /\ \A j \in (i + 1)..Len(ms) : ms[j].role # "user"

\* `ms` without the message at index k.
WithoutIndex(ms, k) ==
    [i \in 1..(Len(ms) - 1) |-> IF i < k THEN ms[i] ELSE ms[i + 1]]

\* C20: for a messages array with a user message, the context placed before
\* the prompt is made of the messages other than the last user message, each
\* once and in order, also when the array ends with an assistant message.
C20_ContextIsTheRest ==
    response.status = 200 =>
        LET rest == WithoutIndex(messages, LastUserIndex(messages)) IN
        response.context = Join([i \in 1..Len(rest) |-> FormatMessage(rest[i])])

====
